---- MODULE Spec2Model ----
\* A model of src/main.py: the Streamlit page script of the stock watchlist
\* dashboard.  One page load runs the script top to bottom: the memoized
\* watchlist loader, then one loop iteration per watchlist row, each calling
\* get_stock_analysis and rendering a card when a result is returned.
\*
\* Text is modelled as a sequence of characters, so that substring tests and
\* strip() are computed.  The labels of the page are written in ASCII: every
\* CJK character is one element, named by its pinyin.
\* Real numbers that the code obtains by division or by the factor 1.3 are
\* exact fractions [n, d] with d > 0.
EXTENDS Integers, Sequences, FiniteSets, TLC

----------------------------------------------------------------------------
\* Bounds of the model

\* the longest watchlist table the spreadsheet returns
MaxRows == 2

\* the number of clock advances in a behaviour
MaxTicks == 2

----------------------------------------------------------------------------
\* Program constants

\* @st.cache_data(ttl=600)
TTL == 600

\* info.get('trailingPE', 15)
DefaultPE == 15

\* curr['ATRr_14'] * 2
AtrMult == 2

----------------------------------------------------------------------------
\* Values

\* Python None
None == [none |-> TRUE]

\* a cell of a DataFrame, an indicator value or a value of the info dict
Num(v) == [kind |-> "num", val |-> v]
NaN == [kind |-> "nan", val |-> 0]
Text == [kind |-> "text", val |-> 0]
Null == [kind |-> "null", val |-> 0]
Missing == [kind |-> "missing", val |-> 0]
Str(s) == [kind |-> "str", val |-> s]

\* an exact fraction n/d
Frac(n, d) == [n |-> n, d |-> d]
FracEq(a, b) == a.n * b.d = b.n * a.d

\* t in s, for Python strings
Contains(t, s) ==
  \E i \in 1..(Len(s) - Len(t) + 1) : SubSeq(s, i, i + Len(t) - 1) = t

RECURSIVE LStrip(_)
LStrip(s) == IF s # <<>> /\ Head(s) = " " THEN LStrip(Tail(s)) ELSE s

RECURSIVE RStrip(_)
RStrip(s) ==
  IF s # <<>> /\ s[Len(s)] = " " THEN RStrip(SubSeq(s, 1, Len(s) - 1)) ELSE s

\* str.strip()
Strip(s) == RStrip(LStrip(s))

\* pd.isna(cell)
IsNa(cell) == cell.kind = "nan"

----------------------------------------------------------------------------
\* The industry keywords of the valuation model and the trend labels

KwBank == <<"B", "a", "n", "k">>
KwInsurance == <<"I", "n", "s", "u", "r", "a", "n", "c", "e">>
KwShipping == <<"S", "h", "i", "p", "p", "i", "n", "g">>
KwSteel == <<"S", "t", "e", "e", "l">>
KwBasicMaterials ==
  <<"B", "a", "s", "i", "c", " ", "M", "a", "t", "e", "r", "i", "a", "l", "s">>

PbKeywords == {KwBank, KwInsurance, KwShipping, KwSteel, KwBasicMaterials}

\* the label of a rising trend: (fire) duo tou qiang shi
TrendStrong == <<"(fire)", " ", "duo", "tou", "qiang", "shi">>

\* the label of a weakening trend: (warning) qu shi zhuan ruo
TrendWeak == <<"(warning)", " ", "qu", "shi", "zhuan", "ruo">>

\* the text the page looks for in the trend label: qiang shi
StrongMark == <<"qiang", "shi">>

----------------------------------------------------------------------------
\* get_stock_analysis

\* info.get(key, default): the default is used only when the key is absent
InfoGet(info, key, default) ==
  IF info[key].kind = "missing" THEN default ELSE info[key]

\* any(x in industry for x in [...])
IsPbModel(industry) == \E x \in PbKeywords : Contains(x, industry)

\* the valuation of lines 57-65: [fault |-> TRUE] when an operand is not of
\* the type the operation needs (TypeError), else the value and the model
Valuation(info) ==
  LET industry == InfoGet(info, "industry", Str(<<>>))
      bookValue == InfoGet(info, "bookValue", Num(0))
      eps == InfoGet(info, "trailingEps", Num(0))
      pe == InfoGet(info, "trailingPE", Num(DefaultPE))
  IN  IF industry.kind # "str" THEN [fault |-> TRUE]
      ELSE IF IsPbModel(industry.val)
      THEN IF bookValue.kind # "num" THEN [fault |-> TRUE]
           ELSE [fault |-> FALSE,
                 intrinsic |-> Frac(bookValue.val * 13, 10),
                 model_type |-> "P/B"]
      ELSE IF eps.kind # "num" \/ pe.kind # "num" THEN [fault |-> TRUE]
           ELSE [fault |-> FALSE,
                 intrinsic |-> Frac(eps.val * pe.val, 1),
                 model_type |-> "P/E"]

\* curr['Close'] - (curr['ATRr_14'] * 2)
StopLoss(curr) == curr.Close - (curr.ATRr_14 * AtrMult)

\* the trend label with >= for >
TrendAtOrAbove(curr, ma20) ==
  IF ma20.kind = "num" /\ curr.Close >= ma20.val THEN TrendStrong ELSE TrendWeak

\* the trend label: a comparison with NaN is false
Trend(curr, ma20) ==
  IF ma20.kind = "num" /\ curr.Close > ma20.val THEN TrendStrong ELSE TrendWeak

\* ((curr['Close'] - cost_price) / cost_price * 100) if cost_price else None
Roi(curr, cost_price) ==
  IF cost_price # None /\ cost_price.val # 0
  THEN Frac((curr.Close - cost_price.val) * 100, cost_price.val)
  ELSE None

\* get_stock_analysis with a failed metadata fetch handled as an empty info
\* dict, so that the analysis goes on with the defaults
get_stock_analysis_empty_info(symbol, cost_price, r) ==
  IF r.download = "fault" \/ r.bars < 2 \/ r.ta # "ok" THEN None
  ELSE LET info == IF r.infoFetch = "fault"
                   THEN [industry |-> Missing, bookValue |-> Missing,
                         trailingEps |-> Missing, trailingPE |-> Missing,
                         shortName |-> Missing]
                   ELSE r.info
           v == Valuation(info)
       IN  IF v.fault THEN None
           ELSE [df |-> r.bars,
                 info |-> info,
                 price |-> r.curr.Close,
                 intrinsic |-> v.intrinsic,
                 model_type |-> v.model_type,
                 k |-> r.curr.STOCHk_9_3_3,
                 rsi |-> r.curr.RSI_14,
                 macd_h |-> r.curr.MACDH_12_26_9,
                 stop_loss |-> StopLoss(r.curr),
                 trend |-> Trend(r.curr, r.ma20),
                 roi |-> Roi(r.curr, cost_price)]

\* The function, given what the market-data provider and the indicator
\* library answer to this call (r).  Every fault is raised inside the try
\* block and the bare except returns None.
get_stock_analysis(symbol, cost_price, r) ==
  IF r.download = "fault" THEN None
  ELSE IF r.bars = 0 THEN None
  ELSE IF r.ta = "fault" THEN None
  ELSE IF r.bars < 2 THEN None
  ELSE IF r.infoFetch = "fault" THEN None
  ELSE LET v == Valuation(r.info)
       IN  IF v.fault THEN None
           ELSE IF r.ta = "nocolumns" THEN None
           ELSE [df |-> r.bars,
                 info |-> r.info,
                 price |-> r.curr.Close,
                 intrinsic |-> v.intrinsic,
                 model_type |-> v.model_type,
                 k |-> r.curr.STOCHk_9_3_3,
                 rsi |-> r.curr.RSI_14,
                 macd_h |-> r.curr.MACDH_12_26_9,
                 stop_loss |-> StopLoss(r.curr),
                 trend |-> Trend(r.curr, r.ma20),
                 roi |-> Roi(r.curr, cost_price)]

\* the keys of the returned dict
ResultFields ==
  {"df", "info", "price", "intrinsic", "model_type", "k", "rsi", "macd_h",
   "stop_loss", "trend", "roi"}

----------------------------------------------------------------------------
\* The page: the cached loader and the loop over the watchlist rows

\* pd.DataFrame(columns=["Ticker", "Cost", "Note"])
EmptyTable == [columns |-> <<"Ticker", "Cost", "Note">>, rows |-> <<>>]

\* load_data_from_sheets with a handler that puts no notice on the page
load_data_silent(outcome) ==
  IF outcome.ok
  THEN [data |-> outcome.data, notice |-> FALSE]
  ELSE [data |-> EmptyTable, notice |-> FALSE]

\* The body of load_data_from_sheets, given what conn.read does on this call:
\* the table read, or the empty table and the st.error notice when it raises
load_data_from_sheets(outcome) ==
  IF outcome.ok
  THEN [data |-> outcome.data, notice |-> FALSE]
  ELSE [data |-> EmptyTable, notice |-> TRUE]

\* a memo entry that never expires
CacheNeverExpires(m, t, keep) == m # None

\* The memo entry of st.cache_data(ttl=600) is served while it is younger than
\* the ttl.  At the instant its age equals the ttl the caching framework
\* decides (keep), and the script does not pin the framework's version.
CacheFresh(m, t, keep) ==
  /\ m # None
  /\ \/ t - m.time < TTL
     \/ t - m.time = TTL /\ keep

\* name in df_cloud.columns
HasColumn(table, name) ==
  \E i \in 1..Len(table.columns) : table.columns[i] = name

\* df_cloud.empty
IsEmpty(table) == Len(table.rows) = 0 \/ Len(table.columns) = 0

\* str(cell)
ToStr(cell) == IF cell.kind = "str" THEN cell.val ELSE <<"n", "a", "n">>

\* row['Cost'] if 'Cost' in df_cloud.columns and not pd.isna(row['Cost']) else 0
CostOf(table, row) ==
  IF HasColumn(table, "Cost") /\ ~IsNa(row.Cost) THEN row.Cost ELSE Num(0)

\* cost if cost != 0 else None
CostPriceNonZero(cost) == IF cost.val # 0 THEN cost ELSE None

\* cost if cost > 0 else None, for a numeric cost
CostPrice(cost) == IF cost.val > 0 THEN cost ELSE None

\* "green" if the mark is in res['trend'] else "orange"
StatusColor(trend) == IF Contains(StrongMark, trend) THEN "green" ELSE "orange"

\* the banner test with <= for <
StopLossBannerAtOrBelow(r) == r.roi # None /\ r.price <= r.stop_loss

\* res['roi'] is not None and res['price'] < res['stop_loss']
StopLossBanner(r) == r.roi # None /\ r.price < r.stop_loss

\* the third and fourth metric tiles, named by the field of res they show
Metrics34(r) == IF r.roi # None THEN <<"roi", "stop_loss">> ELSE <<"k", "rsi">>

\* The card of lines 111-157, as the choices the code makes in drawing it
RenderCard(i, symbol, r) ==
  [index |-> i,
   symbol |-> symbol,
   shortName |-> InfoGet(r.info, "shortName", Str(<<>>)),
   status_color |-> StatusColor(r.trend),
   tag |-> r.trend,
   m1 |-> "price",
   m2 |-> <<"intrinsic", r.model_type>>,
   m34 |-> Metrics34(r),
   banner |-> StopLossBanner(r),
   buy_signal |-> r.price * r.intrinsic.d < r.intrinsic.n,
   tech_signal |-> r.macd_h > 0,
   advice |-> r.macd_h > 0 /\ r.price * r.intrinsic.d < r.intrinsic.n]

----------------------------------------------------------------------------
\* What the outside world can answer

T2330 == <<"2", "3", "3", "0", ".", "T", "W">>
T2317 == <<" ", "2", "3", "1", "7", ".", "T", "W", " ">>
T2603 == <<"2", "6", "0", "3", ".", "T", "W">>
T2882 == <<"2", "8", "8", "2", ".", "T", "W">>

\* rows of a sheet with the columns Ticker, Cost, Note: a cost, a blank cost
\* cell, a cost cell holding text, and a negative cost
Rows ==
  {[Ticker |-> Str(T2330), Cost |-> Num(500), Note |-> NaN],
   [Ticker |-> Str(T2317), Cost |-> NaN, Note |-> NaN],
   [Ticker |-> Str(T2603), Cost |-> Text, Note |-> Text],
   [Ticker |-> Str(T2882), Cost |-> Num(0 - 5), Note |-> NaN]}

\* rows of a sheet that has only the Ticker column
TickerRows == {[Ticker |-> Str(T2330)]}

SeqsUpTo(S, n) == UNION {[1..k -> S] : k \in 0..n}

\* the tables conn.read can return
Tables ==
  {[columns |-> <<"Ticker", "Cost", "Note">>, rows |-> r] :
     r \in SeqsUpTo(Rows, MaxRows)}
  \cup {[columns |-> <<"Ticker">>, rows |-> r] :
          r \in SeqsUpTo(TickerRows, MaxRows)}

\* what conn.read does: it raises, or it returns a table
ReadOutcomes == {[ok |-> FALSE]} \cup {[ok |-> TRUE, data |-> t] : t \in Tables}

IndBanks == <<"B", "a", "n", "k", "s", " ", "-", " ", "R", "e", "g", "i", "o", "n", "a", "l">>
IndInsurance == <<"I", "n", "s", "u", "r", "a", "n", "c", "e", " ", "-", " ", "L", "i", "f", "e">>
IndShipping == <<"M", "a", "r", "i", "n", "e", " ", "S", "h", "i", "p", "p", "i", "n", "g">>
IndSteel == <<"S", "t", "e", "e", "l">>
IndBasic == <<"B", "a", "s", "i", "c", " ", "M", "a", "t", "e", "r", "i", "a", "l", "s">>
IndSemis == <<"S", "e", "m", "i", "c", "o", "n", "d", "u", "c", "t", "o", "r", "s">>
IndLower == <<"M", "o", "r", "t", "g", "a", "g", "e", " ", "b", "a", "n", "k", "i", "n", "g">>

Industries ==
  {IndBanks, IndInsurance, IndShipping, IndSteel, IndBasic, IndSemis, IndLower}

BaseCurr ==
  [Close |-> 550, ATRr_14 |-> 10, STOCHk_9_3_3 |-> 80, RSI_14 |-> 60,
   MACDH_12_26_9 |-> 1]

BaseInfo ==
  [industry |-> Str(IndSemis), bookValue |-> Num(20), trailingEps |-> Num(30),
   trailingPE |-> Num(12), shortName |-> Str(<<"T", "S", "M", "C">>)]

BaseResp ==
  [download |-> "ok", bars |-> 250, ta |-> "ok", curr |-> BaseCurr,
   ma20 |-> Num(540), infoFetch |-> "ok", info |-> BaseInfo]

\* answers that make a step of the analysis fail
FailResponses ==
  {[BaseResp EXCEPT !.download = "fault"],
   [BaseResp EXCEPT !.bars = 0],
   [BaseResp EXCEPT !.bars = 1],
   [BaseResp EXCEPT !.ta = "fault"],
   [BaseResp EXCEPT !.ta = "nocolumns"],
   [BaseResp EXCEPT !.infoFetch = "fault"]}

\* answers that vary the last bar and the moving average
TechResponses ==
  {[BaseResp EXCEPT !.curr = [BaseCurr EXCEPT !.Close = c, !.ATRr_14 = a,
                                              !.MACDH_12_26_9 = h],
                    !.ma20 = m] :
     c \in {540, 550}, a \in {0, 10}, h \in {1}, m \in {NaN, Num(540), Num(550)}}

\* answers that vary the fundamental fields
FundResponses ==
  {[BaseResp EXCEPT !.info = [BaseInfo EXCEPT !.industry = i]] :
     i \in {Str(x) : x \in Industries} \cup {Missing, Null}}
  \cup {[BaseResp EXCEPT !.info = [BaseInfo EXCEPT !.industry = Str(IndBanks),
                                                   !.bookValue = b]] :
          b \in {Missing, Null, Num(20)}}
  \cup {[BaseResp EXCEPT !.info = [BaseInfo EXCEPT !.trailingEps = e,
                                                   !.trailingPE = p]] :
          e \in {Missing, Null, Num(30)}, p \in {Missing, Null, Num(12)}}

Responses == FailResponses \cup TechResponses \cup FundResponses

\* one answer of each outcome of a call: a result, an empty price series, a
\* failing metadata fetch
CoreResponses ==
  {BaseResp, [BaseResp EXCEPT !.bars = 0], [BaseResp EXCEPT !.infoFetch = "fault"]}

\* the clock advances of the model, in seconds
Advances == {1, TTL - 1}

----------------------------------------------------------------------------
\* State

VARIABLES
  now,          \* the clock, in seconds
  ticks,        \* the number of clock advances so far
  memo,         \* the entry of st.cache_data, or None
  lastRead,     \* what the loader did in the latest page load
  pc,           \* the position of the page script
  df_cloud,     \* the watchlist table of the page run
  index,        \* the row the loop is at
  errorNotice,  \* the st.error notice of the loader is on the page
  emptyWarning, \* the st.warning of the empty watchlist is on the page
  sidebar,      \* the count written to the sidebar, or None
  calls,        \* the calls of get_stock_analysis in this page run
  cards,        \* the cards on the page, in the order rendered
  resp,         \* what the provider answered to the latest call
  res,          \* the latest value of res
  card          \* the latest card rendered

vars ==
  <<now, ticks, memo, lastRead, pc, df_cloud, index, errorNotice,
    emptyWarning, sidebar, calls, cards, resp, res, card>>

Init ==
  /\ now = 0
  /\ ticks = 0
  /\ memo = None
  /\ lastRead = "none"
  /\ pc = "idle"
  /\ df_cloud = EmptyTable
  /\ index = 0
  /\ errorNotice = FALSE
  /\ emptyWarning = FALSE
  /\ sidebar = None
  /\ calls = <<>>
  /\ cards = <<>>
  /\ resp = None
  /\ res = None
  /\ card = None

\* the page script is not running
Idle == pc \in {"idle", "done", "crashed"}

\* The clock advances.
Tick(d) ==
  /\ ticks < MaxTicks
  /\ now' = now + d
  /\ ticks' = ticks + 1
  /\ UNCHANGED <<memo, lastRead, pc, df_cloud, index, errorNotice,
                 emptyWarning, sidebar, calls, cards, resp, res, card>>

\* The part of a page run before the loop, given what the loader returned
\* (loaded.data) and the notice it put on the page (loaded.notice).
StartPage(loaded) ==
  /\ df_cloud' = loaded.data
  /\ errorNotice' = loaded.notice
  /\ emptyWarning' = IsEmpty(loaded.data)
  /\ sidebar' = IF IsEmpty(loaded.data) THEN None
                ELSE [count |-> Len(loaded.data.rows)]
  /\ pc' = IF IsEmpty(loaded.data) THEN "done" ELSE "loop"
  /\ index' = IF IsEmpty(loaded.data) THEN 0 ELSE 1
  /\ calls' = <<>>
  /\ cards' = <<>>
  /\ resp' = None
  /\ res' = None
  /\ card' = None

\* A page load whose call of the loader is answered from the memo: the
\* memoized return value, and the notice recorded with it is shown again.
PageLoadMemo ==
  /\ Idle
  /\ \E keep \in BOOLEAN : CacheFresh(memo, now, keep)
  /\ lastRead' = "memo"
  /\ StartPage([data |-> memo.data, notice |-> memo.notice])
  /\ UNCHANGED <<now, ticks, memo>>

\* A page load whose call of the loader runs the function body: the
\* spreadsheet is read and the return value is memoized with the time.
PageLoadRead(outcome) ==
  /\ Idle
  /\ \E keep \in BOOLEAN : ~CacheFresh(memo, now, keep)
  /\ LET loaded == load_data_from_sheets(outcome)
     IN  /\ memo' = [time |-> now, data |-> loaded.data,
                     notice |-> loaded.notice]
         /\ lastRead' = IF outcome.ok THEN "ok" ELSE "failed"
         /\ StartPage(loaded)
  /\ UNCHANGED <<now, ticks>>

\* One iteration of the loop that ends in the TypeError of cost > 0: the
\* exception leaves the script and the page run ends there.
LoopRowCrash ==
  /\ pc = "loop"
  /\ CostOf(df_cloud, df_cloud.rows[index]).kind # "num"
  /\ pc' = "crashed"
  /\ UNCHANGED <<now, ticks, memo, lastRead, df_cloud, index, errorNotice,
                 emptyWarning, sidebar, calls, cards, resp, res, card>>

\* One iteration of the loop: the analysis of the row and, when it returns a
\* result, its card.
LoopRow(r) ==
  /\ pc = "loop"
  /\ LET row == df_cloud.rows[index]
         symbol == Strip(ToStr(row.Ticker))
         cost == CostOf(df_cloud, row)
         cost_price == CostPrice(cost)
         result == get_stock_analysis(symbol, cost_price, r)
     IN  /\ cost.kind = "num"
         /\ resp' = r
         /\ res' = result
         /\ calls' = Append(calls, [index |-> index, symbol |-> symbol,
                                    cost_price |-> cost_price,
                                    available |-> result # None])
         /\ IF result # None
            THEN /\ card' = RenderCard(index, symbol, result)
                 /\ cards' = Append(cards, [index |-> index, symbol |-> symbol])
            ELSE UNCHANGED <<card, cards>>
  /\ index' = index + 1
  /\ pc' = IF index = Len(df_cloud.rows) THEN "done" ELSE "loop"
  /\ UNCHANGED <<now, ticks, memo, lastRead, df_cloud, errorNotice,
                 emptyWarning, sidebar>>

\* The program: clock advances, page loads and loop iterations, with the
\* provider answering each call from CoreResponses.
Next ==
  \/ \E d \in Advances : Tick(d)
  \/ PageLoadMemo
  \/ \E outcome \in ReadOutcomes : PageLoadRead(outcome)
  \/ LoopRowCrash
  \/ \E r \in CoreResponses : LoopRow(r)

Spec == Init /\ [][Next]_vars

\* The page loads within one lifetime of the memo entry (the clock stands
\* still), with the provider answering each call from all of Responses.
NextAnalysis ==
  \/ PageLoadMemo
  \/ \E outcome \in ReadOutcomes : PageLoadRead(outcome)
  \/ LoopRowCrash
  \/ \E r \in Responses : LoopRow(r)

SpecAnalysis == Init /\ [][NextAnalysis]_vars

----------------------------------------------------------------------------
\* Properties

\* a step that is a page load: the script starts and the clock stands still
PageLoadStep == Idle /\ ticks' = ticks

\* the loader read the spreadsheet in the step that set lastRead
DidRead(v) == v \in {"ok", "failed"}

\* the page run has ended, by reaching the end of the script or by an exception
Ended == pc \in {"done", "crashed"}

\* row i of the table has a cost basis: a Cost cell holding a positive number
HasCostBasis(i) ==
  /\ \E c \in 1..Len(df_cloud.columns) : df_cloud.columns[c] = "Cost"
  /\ df_cloud.rows[i].Cost.kind = "num"
  /\ df_cloud.rows[i].Cost.val > 0

\* the provider supplied a value for the field
Supplied(f) == f.kind \notin {"missing", "null"}

\* the call got as far as the valuation: prices, indicators and metadata are there
ReachedValuation(r) ==
  r.download = "ok" /\ r.bars >= 2 /\ r.ta = "ok" /\ r.infoFetch = "ok"

\* a step of the analysis fails on the answer r: price-fetch fault, empty
\* series, fewer than two bars, indicator fault or missing indicator column,
\* metadata-fetch fault, or a null field that the valuation operates on
StepFails(r) ==
  \/ r.download = "fault"
  \/ r.bars < 2
  \/ r.ta # "ok"
  \/ r.infoFetch = "fault"
  \/ r.info.industry.kind = "null"
  \/ /\ r.info.industry.kind = "str"
     /\ IF \E x \in PbKeywords : Contains(x, r.info.industry.val)
        THEN r.info.bookValue.kind = "null"
        ELSE r.info.trailingEps.kind = "null" \/ r.info.trailingPE.kind = "null"

\* C1: a row whose processing fails (unavailable analysis, or a fault in its
\* ticker or cost cell) has no card and does not stop the loop: when the page
\* run has ended, every row after a row without a card has been analysed, and
\* every available analysis has its card.
C1_FailedRowDoesNotStopLoop ==
  Ended =>
    /\ \A i \in 1..Len(df_cloud.rows) :
         (~\E k \in 1..Len(cards) : cards[k].index = i) =>
           \A j \in (i + 1)..Len(df_cloud.rows) :
             \E k \in 1..Len(calls) : calls[k].index = j
    /\ \A k \in 1..Len(calls) :
         calls[k].available <=> \E c \in 1..Len(cards) : cards[c].index = calls[k].index

\* C2: get_stock_analysis returns None or a record with every field of the
\* result; when a step fails it returns None; the caller never gets anything
\* else (a raised fault, a record with only some fields).
C2_SentinelOrFullRecord ==
  resp # None =>
    /\ res = None \/ DOMAIN res = ResultFields
    /\ StepFails(resp) => res = None
    /\ res # None =>
         /\ res.price = resp.curr.Close
         /\ res.k = resp.curr.STOCHk_9_3_3
         /\ res.rsi = resp.curr.RSI_14
         /\ res.macd_h = resp.curr.MACDH_12_26_9
         /\ res.model_type \in {"P/B", "P/E"}
         /\ res.trend \in {TrendStrong, TrendWeak}

\* the metadata fetch failed after prices and indicators were computed, and the
\* caller holds None
C2_Witness ==
  /\ resp # None
  /\ resp.download = "ok" /\ resp.bars >= 2 /\ resp.ta = "ok"
  /\ resp.infoFetch = "fault"
  /\ res = None

\* C3: nothing re-attempts a failed operation by itself, and the page load
\* that follows a failed watchlist read attempts the read again.
C3_RefreshRetriesFailedRead ==
  [][/\ (PageLoadStep /\ lastRead = "failed") => DidRead(lastRead')
     /\ ~PageLoadStep => (lastRead' = lastRead /\ memo' = memo)]_vars

\* C4: the loader reads the spreadsheet only when there is no memo entry or
\* the entry has reached the age of 600 seconds; a page load while the entry
\* is younger returns the memoized table and leaves the entry as it is; a page
\* load after expiry reads afresh; nothing but a read changes the entry.  (At
\* the age of exactly 600 seconds the caching framework decides.)
C4_ReadOnlyWhenAbsentOrExpired ==
  [][/\ PageLoadStep =>
          /\ DidRead(lastRead') => (memo = None \/ now - memo.time >= 600)
          /\ memo = None => DidRead(lastRead')
          /\ (memo # None /\ now - memo.time < 600) =>
               (lastRead' = "memo" /\ memo' = memo /\ df_cloud' = memo.data)
          /\ (memo # None /\ now - memo.time > 600) =>
               (DidRead(lastRead') /\ memo'.time = now /\ df_cloud' = memo'.data)
     /\ ~PageLoadStep => memo' = memo]_vars

\* a page load was answered from a memo entry one second short of expiry
C4_Witness == lastRead = "memo" /\ memo # None /\ now - memo.time = 599

\* C5: when the spreadsheet read fails the loader returns the empty table with
\* the columns Ticker, Cost, Note and puts the error notice on the page; the
\* page run completes with no analyzer call and no card, only the message of
\* the empty watchlist.
C5_ReadFailureDegrades ==
  lastRead = "failed" =>
    /\ df_cloud.columns = <<"Ticker", "Cost", "Note">>
    /\ df_cloud.rows = <<>>
    /\ errorNotice
    /\ pc = "done"
    /\ calls = <<>>
    /\ cards = <<>>
    /\ card = None
    /\ emptyWarning
    /\ sidebar = None

\* a page run whose spreadsheet read failed has completed
C5_Witness == lastRead = "failed" /\ pc = "done" /\ errorNotice /\ emptyWarning

\* C6: the analyzer is called exactly once per row, in table order, and the
\* cards are the rows whose analysis is available, in table order.
C6_OncePerRowInOrder ==
  Ended =>
    /\ Len(calls) = Len(df_cloud.rows)
    /\ \A k \in 1..Len(calls) : calls[k].index = k
    /\ cards = [k \in 1..Len(cards) |->
                  [index |-> SelectSeq(calls, LAMBDA c : c.available)[k].index,
                   symbol |-> SelectSeq(calls, LAMBDA c : c.available)[k].symbol]]
    /\ Len(cards) = Len(SelectSeq(calls, LAMBDA c : c.available))

C8_RoiIffCostBasis ==
  res # None =>
    /\ res.roi # None <=> HasCostBasis(card.index)
    /\ HasCostBasis(card.index) =>
         /\ FracEq(res.roi,
                   Frac((resp.curr.Close - df_cloud.rows[card.index].Cost.val) * 100,
                        df_cloud.rows[card.index].Cost.val))
         /\ res.roi.d > 0
         /\ card.m34 = <<"roi", "stop_loss">>
    /\ ~HasCostBasis(card.index) => card.m34 = <<"k", "rsi">>

\* a card of the row bought at 500 with the close at 550: a return of 10 percent
C8_Witness ==
  /\ res # None
  /\ HasCostBasis(card.index)
  /\ df_cloud.rows[card.index].Cost.val = 500
  /\ resp.curr.Close = 550
  /\ FracEq(res.roi, Frac(10, 1))
  /\ card.m34 = <<"roi", "stop_loss">>

\* C9: a symbol whose analysis got to the valuation has a result; with an
\* industry containing one of the keywords it is the Price-to-Book model with
\* intrinsic = bookValue * 1.3, else the Price-to-Earnings model with
\* intrinsic = trailingEPS * trailingPE; a P/E the provider does not supply
\* counts as 15, an industry, EPS or book value it does not supply as empty or 0.
C9_ValuationModel ==
  (resp # None /\ ReachedValuation(resp)) =>
    LET info == resp.info
        industry == IF Supplied(info.industry) THEN info.industry.val ELSE <<>>
        bookValue == IF Supplied(info.bookValue) THEN info.bookValue.val ELSE 0
        eps == IF Supplied(info.trailingEps) THEN info.trailingEps.val ELSE 0
        pe == IF Supplied(info.trailingPE) THEN info.trailingPE.val ELSE 15
    IN  /\ res # None
        /\ IF \E x \in PbKeywords : Contains(x, industry)
           THEN /\ res.model_type = "P/B"
                /\ FracEq(res.intrinsic, Frac(bookValue * 13, 10))
           ELSE /\ res.model_type = "P/E"
                /\ FracEq(res.intrinsic, Frac(eps * pe, 1))

\* C10: the trend label of a result is Strong exactly when the latest close is
\* above the 20-day average, and Weakening otherwise (also at equality and
\* when there is no average); the status tag is green for Strong, orange
\* otherwise.
C10_TrendStrongIffAboveMa20 ==
  res # None =>
    /\ res.trend = TrendStrong <=>
         (resp.ma20.kind = "num" /\ resp.curr.Close > resp.ma20.val)
    /\ res.trend # TrendStrong => res.trend = TrendWeak
    /\ card.tag = res.trend
    /\ card.status_color = IF res.trend = TrendStrong THEN "green" ELSE "orange"

\* a card whose latest close equals the 20-day average: Weakening, orange
C10_Witness ==
  /\ res # None
  /\ resp.ma20.kind = "num" /\ resp.ma20.val = resp.curr.Close
  /\ res.trend = TrendWeak
  /\ card.status_color = "orange"

====
